---- MODULE Spec2Model ----
(***************************************************************************)
(* Selector tokenizer and matching engine of bevy_elements_core            *)
(* (ess/selector.rs).  The tokenizer is modelled one token per step over   *)
(* the token stream cssparser hands to `impl From<&str> for Selector`; the *)
(* matcher EmlNode::fits is modelled as an explicit call stack, one step   *)
(* per code segment between two recursive calls.                           *)
(* Offsets and chain indices are 0-based as in the source; TLA+ sequences  *)
(* are 1-based, so element `off` of the source is elements[off + 1].       *)
(***************************************************************************)
EXTENDS Integers, Sequences, FiniteSets, TLC

VARIABLES
    consumed,   \* tokens returned so far by parser.next_including_whitespace()
    elements,   \* selector.elements
    next,       \* the tokenizer's `next` flag
    pstatus,    \* "parsing" | "done" (selector returned) | "panic"
    panicMsg,   \* message of the panic that ended construction, "" if none
    chain,      \* the branch handed to Selector::matches, leaf first
    stack,      \* active calls of EmlNode::fits, innermost last
    ret,        \* value returned by the call that returned last
    mstatus,    \* "idle" | "running" | "returned" | "abort"
    first,      \* result of the earlier call of matches on this chain, "none" before
    index,      \* selector.index
    weight      \* selector.weight

vars == <<consumed, elements, next, pstatus, panicMsg, chain, stack, ret, mstatus,
          first, index, weight>>
pvars == <<consumed, elements, next, pstatus, panicMsg>>
mvars == <<chain, stack, ret, mstatus, first>>
svars == <<index, weight>>

----------------------------------------------------------------------------
(* Bounds *)

\* Longest token stream the tokenizer is run on.
MaxTokens == 5
\* Selectors are matched when their source has at most MaxRichTokens tokens of
\* any kind, or at most MaxTokens tokens that are identifiers and whitespace.
MaxRichTokens == 3
\* Longest branch built from arbitrary nodes, and from nodes that carry a tag only.
MaxChain == 1
MaxPlainChain == 4
\* Selectors are matched a second time when their source has at most
\* MaxRepeatTokens tokens.
MaxRepeatTokens == 2

Symbols == {"a", "b"}

----------------------------------------------------------------------------
(* Option<T> *)

None == <<>>
Some(x) == <<x>>

----------------------------------------------------------------------------
(* Tokens of cssparser that the tokenizer distinguishes *)

Ident(v) == [t |-> "Ident", v |-> v]
IDHash(v) == [t |-> "IDHash", v |-> v]
WhiteSpace == [t |-> "WhiteSpace", v |-> " "]
Colon == [t |-> "Colon", v |-> ":"]
Delim(c) == [t |-> "Delim", v |-> c]

\* Id names a token stream may carry; the empty name is the one the code rejects.
IdNames == {"a", ""}
\* Delimiter characters: '.' is the class marker, '>' stands for any other.
DelimChars == {".", ">"}

----------------------------------------------------------------------------
(* SelectorElement *)

AnyChild == [k |-> "AnyChild", v |-> ""]
Id(v) == [k |-> "Id", v |-> v]
Class(v) == [k |-> "Class", v |-> v]
Tag(v) == [k |-> "Tag", v |-> v]
State(v) == [k |-> "State", v |-> v]

is_any_child(e) == e.k = "AnyChild"
is_value(e) == ~is_any_child(e)

----------------------------------------------------------------------------
(* EmlNode over a branch: node idx of chain c *)

Node(id, tag, classes, state) ==
    [id |-> id, tag |-> tag, classes |-> classes, state |-> state]

NodeId(c, idx) == c[idx + 1].id
NodeTag(c, idx) == c[idx + 1].tag
NodeHasClass(c, idx, class) == class \in c[idx + 1].classes
NodeHasState(c, idx, tag) == tag \in c[idx + 1].state

NodeNext(c, idx) == IF idx + 1 >= Len(c) THEN None ELSE Some(idx + 1)

ElementDescribesNode(e, c, idx) ==
    CASE e.k = "Id" -> NodeId(c, idx) = Some(e.v)
      [] e.k = "State" -> NodeHasState(c, idx, e.v)
      [] e.k = "Tag" -> NodeTag(c, idx) = e.v
      [] e.k = "Class" -> NodeHasClass(c, idx, e.v)
      [] OTHER -> FALSE

----------------------------------------------------------------------------
(* SelectorEntry: a view is an offset into elements *)

RECURSIVE SkipValues(_, _)
SkipValues(es, offset) ==
    IF offset < Len(es) /\ ~is_any_child(es[offset + 1])
    THEN SkipValues(es, offset + 1)
    ELSE offset

EntryNext(es, offset) ==
    IF is_any_child(es[offset + 1])
    THEN IF offset + 1 >= Len(es) THEN None ELSE Some(offset + 1)
    ELSE LET o == SkipValues(es, offset)
         IN  IF o >= Len(es) THEN None ELSE Some(o)

EntryIsAnyChild(es, offset) == is_any_child(es[offset + 1])

\* only the first predicate of the compound is compared
DescribesLoopFirstOnly(es, offset, c, idx) ==
    ElementDescribesNode(es[offset + 1], c, idx)

RECURSIVE DescribesLoop(_, _, _, _)
DescribesLoop(es, offset, c, idx) ==
    IF offset < Len(es) /\ is_value(es[offset + 1])
    THEN IF ElementDescribesNode(es[offset + 1], c, idx)
         THEN DescribesLoop(es, offset + 1, c, idx)
         ELSE FALSE
    ELSE TRUE

EntryDescribesNode(es, offset, c, idx) ==
    IF is_any_child(es[offset + 1])
    THEN FALSE
    ELSE DescribesLoop(es, offset, c, idx)

----------------------------------------------------------------------------
(* Tokenizer: impl From<&str> for Selector *)

NEXT_TAG == 0
NEXT_CLASS == 1
NEXT_ATTR == 2

\* push instead of insert(0, ..)
Insert0AtEnd(es, e) == Append(es, e)

Insert0(es, e) == <<e>> \o es

Panic(msg) ==
    /\ pstatus' = "panic"
    /\ panicMsg' = msg
    /\ elements' = <<>>
    /\ UNCHANGED next

\* the flag is not reset after an identifier
ParseIdentKeepFlag ==
    \E v \in Symbols :
        /\ pstatus = "parsing"
        /\ Len(consumed) < MaxTokens
        /\ consumed' = Append(consumed, Ident(v))
        /\ CASE next = NEXT_TAG -> elements' = Insert0(elements, Tag(v))
             [] next = NEXT_CLASS -> elements' = Insert0(elements, Class(v))
             [] next = NEXT_ATTR -> elements' = Insert0(elements, State(v))
        /\ UNCHANGED <<next, pstatus, panicMsg>>
        /\ UNCHANGED <<mvars, svars>>

ParseIdent ==
    \E v \in Symbols :
        /\ pstatus = "parsing"
        /\ Len(consumed) < MaxTokens
        /\ consumed' = Append(consumed, Ident(v))
        /\ CASE next = NEXT_TAG ->
                  /\ elements' = Insert0(elements, Tag(v))
                  /\ next' = NEXT_TAG
                  /\ UNCHANGED <<pstatus, panicMsg>>
             [] next = NEXT_CLASS ->
                  /\ elements' = Insert0(elements, Class(v))
                  /\ next' = NEXT_TAG
                  /\ UNCHANGED <<pstatus, panicMsg>>
             [] next = NEXT_ATTR ->
                  /\ elements' = Insert0(elements, State(v))
                  /\ next' = NEXT_TAG
                  /\ UNCHANGED <<pstatus, panicMsg>>
             [] OTHER -> Panic("Invalid NEXT_TAG")
        /\ UNCHANGED <<mvars, svars>>

\* the empty id name is not rejected
ParseIDHashAnyName ==
    \E v \in IdNames :
        /\ pstatus = "parsing"
        /\ Len(consumed) < MaxTokens
        /\ consumed' = Append(consumed, IDHash(v))
        /\ elements' = Insert0(elements, Id(v))
        /\ UNCHANGED <<next, pstatus, panicMsg>>
        /\ UNCHANGED <<mvars, svars>>

ParseIDHash ==
    \E v \in IdNames :
        /\ pstatus = "parsing"
        /\ Len(consumed) < MaxTokens
        /\ consumed' = Append(consumed, IDHash(v))
        /\ IF v = ""
           THEN Panic("Invalid #id selector")
           ELSE /\ elements' = Insert0(elements, Id(v))
                /\ UNCHANGED <<next, pstatus, panicMsg>>
        /\ UNCHANGED <<mvars, svars>>

\* whitespace ends a pending modifier
ParseWhiteSpaceResetFlag ==
    /\ pstatus = "parsing"
    /\ Len(consumed) < MaxTokens
    /\ consumed' = Append(consumed, WhiteSpace)
    /\ elements' = Insert0(elements, AnyChild)
    /\ next' = NEXT_TAG
    /\ UNCHANGED <<pstatus, panicMsg>>
    /\ UNCHANGED <<mvars, svars>>

ParseWhiteSpace ==
    /\ pstatus = "parsing"
    /\ Len(consumed) < MaxTokens
    /\ consumed' = Append(consumed, WhiteSpace)
    /\ elements' = Insert0(elements, AnyChild)
    /\ UNCHANGED <<next, pstatus, panicMsg>>
    /\ UNCHANGED <<mvars, svars>>

ParseColon ==
    /\ pstatus = "parsing"
    /\ Len(consumed) < MaxTokens
    /\ consumed' = Append(consumed, Colon)
    /\ next' = NEXT_ATTR
    /\ UNCHANGED <<elements, pstatus, panicMsg>>
    /\ UNCHANGED <<mvars, svars>>

ParseDelim ==
    \E c \in DelimChars :
        /\ pstatus = "parsing"
        /\ Len(consumed) < MaxTokens
        /\ consumed' = Append(consumed, Delim(c))
        /\ IF c = "."
           THEN /\ next' = NEXT_CLASS
                /\ UNCHANGED <<elements, pstatus, panicMsg>>
           ELSE Panic("Unexpected token")
        /\ UNCHANGED <<mvars, svars>>

\* next_including_whitespace() returns Err at the end of the source
ParseEnd ==
    /\ pstatus = "parsing"
    /\ pstatus' = "done"
    /\ UNCHANGED <<consumed, elements, next, panicMsg>>
    /\ UNCHANGED <<mvars, svars>>

----------------------------------------------------------------------------
(* Matching engine: Selector::matches and EmlNode::fits *)

\* Nodes a branch is built from.
NodeIds == {None, Some("a")}
NodeClasses == {{}, {"a"}}
NodeStates == {{}, {"a"}}

Nodes ==
    { Node(i, t, cs, st) : i \in NodeIds, t \in Symbols,
                           cs \in NodeClasses, st \in NodeStates }

PlainNodes == { Node(None, t, {}, {}) : t \in Symbols }

Chains ==
    (UNION { [1..n -> Nodes] : n \in 1..MaxChain })
        \cup (UNION { [1..n -> PlainNodes] : n \in 1..MaxPlainChain })

PlainTokenKinds == {"Ident", "WhiteSpace"}

Matchable(src) ==
    \/ Len(src) <= MaxRichTokens
    \/ \A i \in DOMAIN src : src[i].t \in PlainTokenKinds

Frame(idx, off, pc) == [idx |-> idx, off |-> off, pc |-> pc]

Top == stack[Len(stack)]
Caller == SubSeq(stack, 1, Len(stack) - 1)

\* The running call returns v to its caller (or to Selector::matches).
Return(v) ==
    /\ stack' = Caller
    /\ ret' = v
    /\ mstatus' = IF Len(stack) = 1 THEN "returned" ELSE "running"

\* The running call parks at pc and calls fits on (idx, off).
Call(pc, idx, off) ==
    /\ stack' = Append(Caller, [Top EXCEPT !.pc = pc]) \o <<Frame(idx, off, "enter")>>
    /\ UNCHANGED <<ret, mstatus>>

\* A panic (index out of bounds, unwrap of None) unwinds every call.
Abort ==
    /\ stack' = <<>>
    /\ mstatus' = "abort"
    /\ UNCHANGED ret

Matches ==
    /\ pstatus = "done"
    /\ Matchable(consumed)
    /\ mstatus = "idle"
    /\ \E c \in Chains : chain' = c
    /\ stack' = <<Frame(0, 0, "enter")>>
    /\ mstatus' = "running"
    /\ UNCHANGED <<ret, first, svars>>
    /\ UNCHANGED pvars

\* fits, combinator case: up to the call self.fits(&next_selector)
FitsAnyChild ==
    /\ mstatus = "running"
    /\ Top.pc = "enter"
    /\ Top.off < Len(elements)
    /\ EntryIsAnyChild(elements, Top.off)
    /\ LET next_selector == EntryNext(elements, Top.off)
       IN  IF next_selector = None
           THEN Abort
           ELSE Call("self", Top.idx, next_selector[1])
    /\ UNCHANGED <<chain, first, svars>>
    /\ UNCHANGED pvars

\* fits, combinator case: after self.fits(&next_selector) returned
FitsAfterSelf ==
    /\ mstatus = "running"
    /\ Top.pc = "self"
    /\ IF ret
       THEN Return(TRUE)
       ELSE LET next_node == NodeNext(chain, Top.idx)
                next_selector == EntryNext(elements, Top.off)
            IN  IF next_node = None
                THEN Return(FALSE)
                ELSE Call("parent_next", next_node[1], next_selector[1])
    /\ UNCHANGED <<chain, first, svars>>
    /\ UNCHANGED pvars

\* the parent is not asked to satisfy the unconsumed combinator
FitsAfterParentNextNoRetry ==
    /\ mstatus = "running"
    /\ Top.pc = "parent_next"
    /\ Return(ret)
    /\ UNCHANGED <<chain, first, svars>>
    /\ UNCHANGED pvars

\* the retry is made on the node itself instead of its parent
FitsAfterParentNextSameNode ==
    /\ mstatus = "running"
    /\ Top.pc = "parent_next"
    /\ IF ret
       THEN Return(TRUE)
       ELSE Call("parent_same", Top.idx, Top.off)
    /\ UNCHANGED <<chain, first, svars>>
    /\ UNCHANGED pvars

\* fits, combinator case: after next_node.fits(&next_selector) returned
FitsAfterParentNext ==
    /\ mstatus = "running"
    /\ Top.pc = "parent_next"
    /\ IF ret
       THEN Return(TRUE)
       ELSE Call("parent_same", NodeNext(chain, Top.idx)[1], Top.off)
    /\ UNCHANGED <<chain, first, svars>>
    /\ UNCHANGED pvars

\* fits, combinator case: after next_node.fits(selector) returned
FitsAfterParentSame ==
    /\ mstatus = "running"
    /\ Top.pc = "parent_same"
    /\ Return(ret)
    /\ UNCHANGED <<chain, first, svars>>
    /\ UNCHANGED pvars

\* a described node adds to the selector's weight
FitsValueWeighing ==
    /\ mstatus = "running"
    /\ Top.pc = "enter"
    /\ Top.off < Len(elements)
    /\ ~EntryIsAnyChild(elements, Top.off)
    /\ IF EntryDescribesNode(elements, Top.off, chain, Top.idx)
       THEN /\ weight' = weight + 1
            /\ LET next_node == NodeNext(chain, Top.idx)
                   next_slice == EntryNext(elements, Top.off)
               IN  CASE next_node = None /\ next_slice = None -> Return(TRUE)
                     [] next_node # None /\ next_slice # None ->
                           Call("tail", next_node[1], next_slice[1])
                     [] next_node # None /\ next_slice = None -> Return(TRUE)
                     [] next_node = None /\ next_slice # None -> Return(FALSE)
       ELSE Return(FALSE) /\ UNCHANGED weight
    /\ UNCHANGED <<chain, first, index>>
    /\ UNCHANGED pvars

\* fits, predicate case and the final else
FitsValue ==
    /\ mstatus = "running"
    /\ Top.pc = "enter"
    /\ Top.off < Len(elements)
    /\ ~EntryIsAnyChild(elements, Top.off)
    /\ IF EntryDescribesNode(elements, Top.off, chain, Top.idx)
       THEN LET next_node == NodeNext(chain, Top.idx)
                next_slice == EntryNext(elements, Top.off)
            IN  CASE next_node = None /\ next_slice = None -> Return(TRUE)
                  [] next_node # None /\ next_slice # None ->
                        Call("tail", next_node[1], next_slice[1])
                  [] next_node # None /\ next_slice = None -> Return(TRUE)
                  [] next_node = None /\ next_slice # None -> Return(FALSE)
       ELSE Return(FALSE)
    /\ UNCHANGED <<chain, first, svars>>
    /\ UNCHANGED pvars

\* fits, predicate case: after next_node.fits(&next_slice) returned
FitsAfterTail ==
    /\ mstatus = "running"
    /\ Top.pc = "tail"
    /\ Return(ret)
    /\ UNCHANGED <<chain, first, svars>>
    /\ UNCHANGED pvars

\* selector.is_any_child() indexes elements[offset] past the end
FitsOutOfBounds ==
    /\ mstatus = "running"
    /\ Top.pc = "enter"
    /\ Top.off >= Len(elements)
    /\ Abort
    /\ UNCHANGED <<chain, first, svars>>
    /\ UNCHANGED pvars

----------------------------------------------------------------------------

Init ==
    /\ consumed = <<>>
    /\ elements = <<>>
    /\ next = NEXT_TAG
    /\ pstatus = "parsing"
    /\ panicMsg = ""
    /\ chain = <<>>
    /\ stack = <<>>
    /\ ret = FALSE
    /\ mstatus = "idle"
    /\ first = "none"
    /\ index = 0
    /\ weight = 0

Next ==
    \/ ParseIdent
    \/ ParseIDHash
    \/ ParseWhiteSpace
    \/ ParseColon
    \/ ParseDelim
    \/ ParseEnd
    \/ Matches
    \/ FitsAnyChild
    \/ FitsAfterSelf
    \/ FitsAfterParentNext
    \/ FitsAfterParentSame
    \/ FitsValue
    \/ FitsAfterTail
    \/ FitsOutOfBounds

Spec == Init /\ [][Next]_vars

----------------------------------------------------------------------------
(* A second call of Selector::matches on the same selector and branch, the  *)
(* owner of the selector being free to write its index and weight between   *)
(* the two calls.                                                           *)

SelectorIndexes == {0, 1}
Weights == {0, 1}

\* selector.index = SelectorIndex::new(i); selector.weight = w
AssignOrder ==
    /\ mstatus = "returned"
    /\ first = "none"
    /\ Len(consumed) <= MaxRepeatTokens
    /\ \E i \in SelectorIndexes, w \in Weights :
          /\ index' = i
          /\ weight' = w
    /\ UNCHANGED mvars
    /\ UNCHANGED pvars

MatchesAgain ==
    /\ mstatus = "returned"
    /\ first = "none"
    /\ Len(consumed) <= MaxRepeatTokens
    /\ first' = IF ret THEN "true" ELSE "false"
    /\ stack' = <<Frame(0, 0, "enter")>>
    /\ mstatus' = "running"
    /\ UNCHANGED <<chain, ret, svars>>
    /\ UNCHANGED pvars

NextRepeat ==
    \/ Next
    \/ AssignOrder
    \/ MatchesAgain

RepeatSpec == Init /\ [][NextRepeat]_vars

----------------------------------------------------------------------------
(* The source as read back from the token history *)

IsWhiteSpaceTok(tok) == tok.t = "WhiteSpace"
IsPredicateTok(tok) == tok.t \in {"Ident", "IDHash"}
IsProducerTok(tok) == IsWhiteSpaceTok(tok) \/ IsPredicateTok(tok)
IsModifierTok(tok) == tok = Colon \/ tok = Delim(".")
IsAcceptedTok(tok) ==
    \/ tok.t \in {"Ident", "WhiteSpace", "Colon"}
    \/ tok.t = "IDHash" /\ tok.v # ""
    \/ tok = Delim(".")

\* Position of the last identifier or modifier strictly before position i, 0 if none.
LastFlagTok(src, i) ==
    LET js == { j \in 1..(i - 1) : src[j].t = "Ident" \/ IsModifierTok(src[j]) }
    IN  IF js = {} THEN 0 ELSE CHOOSE j \in js : \A h \in js : h <= j

\* The element the token at position i stands for in the source text.
SourceElement(src, i) ==
    LET tok == src[i]
        j == LastFlagTok(src, i)
    IN  CASE tok.t = "WhiteSpace" -> AnyChild
          [] tok.t = "IDHash" -> Id(tok.v)
          [] tok.t = "Ident" /\ j # 0 /\ src[j] = Delim(".") -> Class(tok.v)
          [] tok.t = "Ident" /\ j # 0 /\ src[j] = Colon -> State(tok.v)
          [] OTHER -> Tag(tok.v)

ProducersUpTo(src, i) == Cardinality({ j \in 1..i : IsProducerTok(src[j]) })

\* Compounds of the source, numbered 1..k in source order.
CompoundOf(src, i) == 1 + Cardinality({ j \in 1..(i - 1) : IsWhiteSpaceTok(src[j]) })
NumSegments(src) == CompoundOf(src, Len(src) + 1)
CompoundPredicates(src, j) ==
    { SourceElement(src, i) :
        i \in { h \in DOMAIN src : IsPredicateTok(src[h]) /\ CompoundOf(src, h) = j } }

\* k >= 1 compounds separated by single whitespace, none leading or trailing.
WellSeparated(src) ==
    /\ src # <<>>
    /\ \A j \in 1..NumSegments(src) : CompoundPredicates(src, j) # {}

Satisfies(c, idx, ps) == \A e \in ps : ElementDescribesNode(e, c, idx)

\* Indices 0 = i_k < ... < i_1 <= m with node i_j satisfying compound j.
DescendantMatch(src, c) ==
    LET k == NumSegments(src)
    IN  \E f \in [1..k -> 0..(Len(c) - 1)] :
            /\ f[k] = 0
            /\ \A j \in 1..(k - 1) : f[j] > f[j + 1]
            /\ \A j \in 1..k : Satisfies(c, f[j], CompoundPredicates(src, j))

MatchEnded == mstatus \in {"returned", "abort"}

----------------------------------------------------------------------------
(* C1: a selector parsed from k >= 1 compounds separated by single          *)
(* whitespace matches a chain exactly when the leaf satisfies the last      *)
(* compound and strictly shallower ancestors, in order, satisfy the earlier *)
(* ones (not necessarily adjacent ones).                                    *)
DescendantSemantics ==
    (MatchEnded /\ WellSeparated(consumed)) =>
        /\ mstatus = "returned"
        /\ ret = DescendantMatch(consumed, chain)

\* "A B" matched through the great-grandparent: parent and grandparent fail A
DescendantSemanticsWitness ==
    /\ mstatus = "returned"
    /\ ret
    /\ WellSeparated(consumed)
    /\ NumSegments(consumed) = 2
    /\ Len(chain) = 4
    /\ ~Satisfies(chain, 1, CompoundPredicates(consumed, 1))
    /\ ~Satisfies(chain, 2, CompoundPredicates(consumed, 1))
    /\ Satisfies(chain, 3, CompoundPredicates(consumed, 1))

----------------------------------------------------------------------------
\* Predicates of every compound of the source
AllPredicates(src) == UNION { CompoundPredicates(src, j) : j \in 1..NumSegments(src) }
NonEmptyCompounds(src) == { j \in 1..NumSegments(src) : CompoundPredicates(src, j) # {} }

(* C2: a selector of exactly one compound matches exactly when the leaf     *)
(* satisfies every predicate of it, whatever the ancestors are.             *)
SingleCompoundLeafOnly ==
    (MatchEnded /\ Cardinality(NonEmptyCompounds(consumed)) = 1) =>
        /\ mstatus = "returned"
        /\ ret = Satisfies(chain, 0, AllPredicates(consumed))

(* C3: matching any selector the tokenizer returns against a non-empty      *)
(* chain ends with a boolean and never aborts.                              *)
MatchingNeverAborts == mstatus # "abort"

----------------------------------------------------------------------------
\* A step of the running match
FitsStep ==
    \/ FitsAnyChild
    \/ FitsAfterSelf
    \/ FitsAfterParentNext
    \/ FitsAfterParentSame
    \/ FitsValue
    \/ FitsAfterTail
    \/ FitsOutOfBounds

(* C4: fits terminates: every call it makes is on a pair whose offset or    *)
(* chain index is strictly larger than the caller's and neither is smaller, *)
(* the call depth stays within chain length plus element count, and every   *)
(* step of a running match lowers a natural-valued rank of the call stack.  *)
CallsAdvance ==
    /\ \A i \in 1..(Len(stack) - 1) :
          /\ stack[i + 1].idx >= stack[i].idx
          /\ stack[i + 1].off >= stack[i].off
          /\ stack[i + 1].idx > stack[i].idx \/ stack[i + 1].off > stack[i].off
    /\ Len(stack) <= Len(chain) + Len(elements)
    /\ (mstatus = "running") => ENABLED FitsStep

\* Nodes and elements still ahead of a call
Budget(f) == (Len(chain) - f.idx) + (Len(elements) - f.off)

\* Steps a call with budget d can take, its callees included
RECURSIVE CallBound(_)
CallBound(d) == IF d <= 0 THEN 4 ELSE 4 * CallBound(d - 1)

\* Steps a call can still take from where it stands
FrameRank(f) ==
    CASE f.pc = "enter" -> CallBound(Budget(f))
      [] f.pc = "self" -> 3 + 2 * CallBound(Budget(f) - 1)
      [] f.pc = "parent_next" -> 2 + CallBound(Budget(f) - 1)
      [] OTHER -> 1

RECURSIVE StackRank(_)
StackRank(st) == IF st = <<>> THEN 0 ELSE FrameRank(Head(st)) + StackRank(Tail(st))

RankDecreases == (mstatus = "running") => StackRank(stack') < StackRank(stack)

FitsTerminates == []CallsAdvance /\ [][RankDecreases]_vars

\* a call three deep that advanced the node once and the offset once
FitsTerminatesWitness ==
    /\ mstatus = "running"
    /\ Len(stack) >= 3
    /\ \E i \in 1..(Len(stack) - 1) :
          stack[i + 1].idx > stack[i].idx /\ stack[i + 1].off = stack[i].off
    /\ \E i \in 1..(Len(stack) - 1) :
          stack[i + 1].idx = stack[i].idx /\ stack[i + 1].off > stack[i].off

----------------------------------------------------------------------------
(* C5: a token stream holding an id marker with an empty name, or a token   *)
(* that is not an identifier, #id, whitespace, ':' or '.', ends in a panic  *)
(* and no Selector is returned, wherever the token stands.                  *)
BadTokenPanics ==
    (\E i \in DOMAIN consumed : ~IsAcceptedTok(consumed[i])) =>
        /\ pstatus = "panic"
        /\ panicMsg # ""
        /\ elements = <<>>
        /\ mstatus = "idle"

\* an empty #id met after elements had been parsed
BadTokenPanicsWitness ==
    /\ pstatus = "panic"
    /\ Len(consumed) >= 3
    /\ consumed[Len(consumed)] = IDHash("")
    /\ IsPredicateTok(consumed[1])

(* C6: a '.' or ':' with no identifier after it before the end of the       *)
(* source makes construction fail.                                          *)
DanglingModifier(src) ==
    \E i \in DOMAIN src :
        /\ IsModifierTok(src[i])
        /\ \A j \in (i + 1)..Len(src) : src[j].t # "Ident"

DanglingModifierFails == DanglingModifier(consumed) => pstatus # "done"

----------------------------------------------------------------------------
(* C7: the element sequence is the reverse of the elements in source order: *)
(* identifiers, #ids and whitespace give one element each, ':' and '.' none.*)
ReverseOfSource ==
    (pstatus # "panic") =>
        /\ Len(elements) = ProducersUpTo(consumed, Len(consumed))
        /\ \A i \in DOMAIN consumed :
              IsProducerTok(consumed[i]) =>
                  elements[Len(elements) - ProducersUpTo(consumed, i) + 1]
                      = SourceElement(consumed, i)

\* "#a.b a": four elements out of five tokens
ReverseOfSourceWitness ==
    /\ pstatus = "done"
    /\ consumed = <<IDHash("a"), Delim("."), Ident("b"), WhiteSpace, Ident("a")>>
    /\ elements = <<Tag("a"), AnyChild, Class("b"), Id("a")>>

----------------------------------------------------------------------------
(* C8: the flag is always expect-tag, expect-class or expect-state; it is   *)
(* expect-class after '.', expect-state after ':' and expect-tag at the     *)
(* start and after an identifier; an identifier becomes Tag, Class or State *)
(* by the flag's value when it is consumed; 'Invalid NEXT_TAG' never        *)
(* happens; "a.b c" gives Tag(a), Class(b), Tag(c).                         *)
FlagOf(src) ==
    LET j == LastFlagTok(src, Len(src) + 1)
    IN  IF j = 0 \/ src[j].t = "Ident" THEN NEXT_TAG
        ELSE IF src[j] = Delim(".") THEN NEXT_CLASS
        ELSE NEXT_ATTR

ElementForFlag(n, v) ==
    CASE n = NEXT_TAG -> Tag(v)
      [] n = NEXT_CLASS -> Class(v)
      [] n = NEXT_ATTR -> State(v)

FlagState ==
    /\ next \in {NEXT_TAG, NEXT_CLASS, NEXT_ATTR}
    /\ next = FlagOf(consumed)
    /\ panicMsg # "Invalid NEXT_TAG"
    /\ (pstatus # "panic"
          /\ consumed = <<Ident("a"), Delim("."), Ident("b"), WhiteSpace, Ident("b")>>)
          => elements = <<Tag("b"), AnyChild, Class("b"), Tag("a")>>

IdentStep ==
    \A v \in Symbols :
        (consumed' = Append(consumed, Ident(v))) =>
            /\ elements' = <<ElementForFlag(next, v)>> \o elements
            /\ next' = NEXT_TAG

FlagCycle == []FlagState /\ [][IdentStep]_vars

\* "a.b b" parsed to the end
FlagCycleWitness ==
    /\ pstatus = "done"
    /\ consumed = <<Ident("a"), Delim("."), Ident("b"), WhiteSpace, Ident("b")>>

----------------------------------------------------------------------------
\* Offsets at which a compound (maximal run of predicates) starts
CompoundStarts(es) ==
    { o \in 0..(Len(es) - 1) :
        is_value(es[o + 1]) /\ (o = 0 \/ is_any_child(es[o])) }

\* Offsets of the views tail(), tail().next(), tail().next().next(), ...
RECURSIVE ViewsFrom(_, _)
ViewsFrom(es, o) ==
    LET n == EntryNext(es, o)
    IN  IF n = None THEN {o} ELSE {o} \cup ViewsFrom(es, n[1])

LastCompound(src) ==
    CHOOSE j \in NonEmptyCompounds(src) : \A h \in NonEmptyCompounds(src) : h <= j

(* C9: for an accepted source with a predicate, leading and trailing        *)
(* whitespace included, the element at offset 0 is a predicate of the       *)
(* compound nearest the end of the source, there are as many compounds as   *)
(* predicate runs in the source, and each is reached from tail() by next(). *)
TailIsLastCompound ==
    (pstatus = "done" /\ NonEmptyCompounds(consumed) # {}) =>
        /\ elements[1] \in CompoundPredicates(consumed, LastCompound(consumed))
        /\ Cardinality(CompoundStarts(elements)) = Cardinality(NonEmptyCompounds(consumed))
        /\ CompoundStarts(elements) \subseteq ViewsFrom(elements, 0)

(* C10: a sequence the tokenizer returns has no two adjacent AnyChild and   *)
(* neither starts nor ends with AnyChild.                                   *)
WellFormedElements ==
    (pstatus = "done" /\ elements # <<>>) =>
        /\ \A i \in 1..(Len(elements) - 1) :
              ~(is_any_child(elements[i]) /\ is_any_child(elements[i + 1]))
        /\ ~is_any_child(elements[1])
        /\ ~is_any_child(elements[Len(elements)])

----------------------------------------------------------------------------
(* EmlNode::fits and Selector::matches as functions of the element sequence *)
(* and the branch: "true", "false", or "abort" when the call panics.  The   *)
(* operands of || are evaluated left to right and a panic in one of them    *)
(* ends the whole call.                                                     *)

\* the combinator case does not try the node itself first
RECURSIVE fitsParentOnly(_, _, _, _)
fitsParentOnly(es, c, idx, off) ==
    IF off >= Len(es) THEN "abort"
    ELSE IF EntryIsAnyChild(es, off)
    THEN LET next_selector == EntryNext(es, off)
             next_node == NodeNext(c, idx)
         IN  IF next_selector = None THEN "abort"
             ELSE IF next_node = None THEN "false"
             ELSE LET ahead == fitsParentOnly(es, c, next_node[1], next_selector[1])
                  IN  IF ahead # "false" THEN ahead
                      ELSE fitsParentOnly(es, c, next_node[1], off)
    ELSE IF EntryDescribesNode(es, off, c, idx)
    THEN LET next_node == NodeNext(c, idx)
             next_slice == EntryNext(es, off)
         IN  CASE next_node = None /\ next_slice = None -> "true"
               [] next_node # None /\ next_slice # None ->
                     fitsParentOnly(es, c, next_node[1], next_slice[1])
               [] next_node # None /\ next_slice = None -> "true"
               [] next_node = None /\ next_slice # None -> "false"
    ELSE "false"

RECURSIVE fits(_, _, _, _)
fits(es, c, idx, off) ==
    IF off >= Len(es) THEN "abort"
    ELSE IF EntryIsAnyChild(es, off)
    THEN LET next_selector == EntryNext(es, off)
         IN  IF next_selector = None THEN "abort"
             ELSE LET self == fits(es, c, idx, next_selector[1])
                      next_node == NodeNext(c, idx)
                  IN  IF self # "false" THEN self
                      ELSE IF next_node = None THEN "false"
                      ELSE LET ahead == fits(es, c, next_node[1], next_selector[1])
                           IN  IF ahead # "false" THEN ahead
                               ELSE fits(es, c, next_node[1], off)
    ELSE IF EntryDescribesNode(es, off, c, idx)
    THEN LET next_node == NodeNext(c, idx)
             next_slice == EntryNext(es, off)
         IN  CASE next_node = None /\ next_slice = None -> "true"
               [] next_node # None /\ next_slice # None ->
                     fits(es, c, next_node[1], next_slice[1])
               [] next_node # None /\ next_slice = None -> "true"
               [] next_node = None /\ next_slice # None -> "false"
    ELSE "false"

matches(es, c) == fits(es, c, 0, 0)

\* How the match of the current state ended
Outcome == IF mstatus = "abort" THEN "abort" ELSE IF ret THEN "true" ELSE "false"

----------------------------------------------------------------------------
\* Offsets of the predicates a view parked at offset reads: up to the next
\* AnyChild or the end
RunFrom(es, offset) ==
    { o \in offset..(Len(es) - 1) : \A h \in offset..o : is_value(es[h + 1]) }

\* The node without the id, class, tag or state that element e names
Without(n, e) ==
    CASE e.k = "Id" -> [n EXCEPT !.id = None]
      [] e.k = "Class" -> [n EXCEPT !.classes = @ \ {e.v}]
      [] e.k = "State" -> [n EXCEPT !.state = @ \ {e.v}]
      [] e.k = "Tag" -> [n EXCEPT !.tag = CHOOSE s \in Symbols : s # e.v]
      [] OTHER -> n

\* The sequence with the elements at offsets o and o + 1 exchanged
SwapAt(es, o) ==
    [i \in DOMAIN es |->
        IF i = o + 1 THEN es[o + 2] ELSE IF i = o + 2 THEN es[o + 1] ELSE es[i]]

\* Offsets o such that o and o + 1 hold predicates of one compound
AdjacentPredicates(es) ==
    { o \in 0..(Len(es) - 2) : is_value(es[o + 1]) /\ is_value(es[o + 2]) }

\* describes_node on every view of the selector returned and every node
DescribesRun ==
    (pstatus = "done" /\ mstatus = "idle") =>
       \A off \in 0..(Len(elements) - 1) : \A n \in Nodes :
           LET d == EntryDescribesNode(elements, off, <<n>>, 0)
               run == RunFrom(elements, off)
           IN  /\ d = (/\ is_value(elements[off + 1])
                       /\ \A o \in run :
                             ElementDescribesNode(elements[o + 1], <<n>>, 0))
               /\ is_any_child(elements[off + 1]) => ~d
               /\ d => \A o \in run :
                     ~EntryDescribesNode(elements, off,
                                         <<Without(n, elements[o + 1])>>, 0)
               /\ \A o \in run :
                     (o + 1 \in run) =>
                         EntryDescribesNode(SwapAt(elements, o), off, <<n>>, 0) = d

\* matches on the sequence with two predicates of a compound exchanged
MatchesUnderExchange ==
    MatchEnded =>
       \A o \in AdjacentPredicates(elements) :
           matches(SwapAt(elements, o), chain) = Outcome

(* C11: a view describes a node exactly when every element from its offset  *)
(* up to the next AnyChild or the end describes the node; a view parked on  *)
(* AnyChild describes no node; taking away from a described node one id,    *)
(* class, tag or state the compound names makes the result false; and       *)
(* exchanging two predicates of a compound changes neither the result of    *)
(* describes_node at the compound's start nor the result of matches.        *)
ConjunctiveCompound == [](DescribesRun /\ MatchesUnderExchange)

\* "a.a" matched a node: a compound of two predicates of different kinds
ConjunctiveCompoundWitness ==
    /\ mstatus = "returned"
    /\ ret
    /\ Len(elements) = 2
    /\ elements[1].k = "Class"
    /\ elements[2].k = "Tag"
    /\ chain[1].tag = elements[2].v

----------------------------------------------------------------------------
\* Branches obtained from c by appending one more ancestor at the root end
Extended(c) == { Append(c, n) : n \in Nodes }

(* C12: when matches returned true on a chain it returns true on the chain  *)
(* with a further ancestor appended at the root end, and appending an       *)
(* ancestor never turns a boolean result into an abort.                     *)
PrefixSuffices ==
    (mstatus = "returned") =>
        \A c \in Extended(chain) :
            /\ matches(elements, c) # "abort"
            /\ ret => matches(elements, c) = "true"

----------------------------------------------------------------------------
(* Selector::tail and Selector::entries.  A view is its offset; entries     *)
(* gives the collected views, or panic when entry.next() indexes            *)
(* elements[offset] past the end.                                           *)

SelectorTail == 0

RECURSIVE EntriesLoop(_, _, _)
EntriesLoop(es, tail, collected) ==
    IF tail = None
    THEN [panic |-> FALSE, views |-> collected]
    ELSE LET entry == tail[1]
         IN  IF entry >= Len(es)
             THEN [panic |-> TRUE, views |-> <<>>]
             ELSE EntriesLoop(es, EntryNext(es, entry),
                              IF is_value(es[entry + 1])
                              THEN Insert0(collected, entry)
                              ELSE collected)

entries(es) == EntriesLoop(es, Some(SelectorTail), <<>>)

(* C13: entries() returns without aborting exactly one view per compound,   *)
(* each parked on the first element of its compound and none on AnyChild,   *)
(* in strictly decreasing offset order; for a sequence with no predicate it *)
(* returns the empty collection.                                            *)
EntriesPerCompound ==
    (pstatus = "done") =>
        LET r == entries(elements)
        IN  /\ ~r.panic
            /\ { r.views[i] : i \in DOMAIN r.views } = CompoundStarts(elements)
            /\ \A i \in DOMAIN r.views : is_value(elements[r.views[i] + 1])
            /\ \A i \in 1..(Len(r.views) - 1) : r.views[i] > r.views[i + 1]

----------------------------------------------------------------------------
(* C14: a second call of matches with the same selector and chain returns   *)
(* the boolean the first call returned, whatever index and weight were set  *)
(* to in between; the result is the function matches of the element         *)
(* sequence and the chain; and no step of a running call changes the        *)
(* element sequence, the index, the weight or a node of the chain.          *)
RepeatAgrees ==
    /\ (MatchEnded /\ first # "none") => Outcome = first
    /\ MatchEnded => Outcome = matches(elements, chain)

ReadOnly == (mstatus = "running") => UNCHANGED <<elements, index, weight, chain>>

IdempotentReadOnly == []RepeatAgrees /\ [][ReadOnly]_vars

\* "a " returned true through an ancestor twice, index and weight rewritten
\* between the calls
IdempotentReadOnlyWitness ==
    /\ mstatus = "returned"
    /\ first = "true"
    /\ ret
    /\ index = 1
    /\ weight = 1
    /\ Len(chain) >= 2
    /\ Len(elements) = 2
    /\ ~ElementDescribesNode(elements[2], chain, 0)

----------------------------------------------------------------------------
\* SelectorEntry::new: the view at offset 0
EntryNew == 0

\* Offsets from o up to the end hold predicates only
ValuesToEnd(es, o) == \A h \in o..(Len(es) - 1) : is_value(es[h + 1])

(* C15: the views given by tail() and SelectorEntry::new() and every view   *)
(* reached from them by next() have offset < elements.len(); next() on      *)
(* AnyChild gives offset + 1, or None at the end; next() on a predicate     *)
(* gives the next AnyChild at a larger offset, or None when the compound    *)
(* runs to the end; next() never gives the same or a smaller offset.        *)
ViewsInBounds ==
    (pstatus = "done") =>
        /\ SelectorTail < Len(elements)
        /\ EntryNew < Len(elements)
        /\ \A o \in 0..(Len(elements) - 1) :
              LET n == EntryNext(elements, o)
              IN  /\ n # None => (n[1] < Len(elements) /\ n[1] > o)
                  /\ is_any_child(elements[o + 1]) =>
                        n = IF o + 1 < Len(elements) THEN Some(o + 1) ELSE None
                  /\ is_value(elements[o + 1]) =>
                        IF ValuesToEnd(elements, o)
                        THEN n = None
                        ELSE /\ n # None
                             /\ is_any_child(elements[n[1] + 1])
                             /\ \A h \in o..(n[1] - 1) : is_value(elements[h + 1])

----------------------------------------------------------------------------
\* fits with `next_node.fits(&next_selector) || next_node.fits(selector)`
\* replaced by `next_node.fits(selector)`
RECURSIVE fitsWithoutDisjunct(_, _, _, _)
fitsWithoutDisjunct(es, c, idx, off) ==
    IF off >= Len(es) THEN "abort"
    ELSE IF EntryIsAnyChild(es, off)
    THEN LET next_selector == EntryNext(es, off)
         IN  IF next_selector = None THEN "abort"
             ELSE LET self == fitsWithoutDisjunct(es, c, idx, next_selector[1])
                      next_node == NodeNext(c, idx)
                  IN  IF self # "false" THEN self
                      ELSE IF next_node = None THEN "false"
                      ELSE fitsWithoutDisjunct(es, c, next_node[1], off)
    ELSE IF EntryDescribesNode(es, off, c, idx)
    THEN LET next_node == NodeNext(c, idx)
             next_slice == EntryNext(es, off)
         IN  CASE next_node = None /\ next_slice = None -> "true"
               [] next_node # None /\ next_slice # None ->
                     fitsWithoutDisjunct(es, c, next_node[1], next_slice[1])
               [] next_node # None /\ next_slice = None -> "true"
               [] next_node = None /\ next_slice # None -> "false"
    ELSE "false"

\* Node idx or an ancestor of it fits the view at offset off
SelfOrAncestorFits(es, c, idx, off) ==
    \E q \in idx..(Len(c) - 1) : fits(es, c, q, off) = "true"

\* Offsets of the AnyChild elements that are not the last element
CombinatorViews(es) == { o \in 0..(Len(es) - 2) : is_any_child(es[o + 1]) }

\* Outcome of fits for the leaf of the chain and the view at offset off; for
\* the view at offset 0 it is the outcome of the call of matches that ended
FitsAt(off) == IF off = 0 THEN Outcome ELSE fits(elements, chain, 0, off)

\* fits at offset 0 and at every combinator view of an ended match
CombinatorAnchors ==
    MatchEnded =>
        /\ fitsWithoutDisjunct(elements, chain, 0, 0) = Outcome
        /\ \A off \in CombinatorViews(elements) :
              /\ fitsWithoutDisjunct(elements, chain, 0, off) = FitsAt(off)
              /\ (FitsAt(off) = "true")
                    <=> SelfOrAncestorFits(elements, chain, 0, off + 1)

(* C16: for every view parked on an AnyChild that is not the last element,  *)
(* fits is true exactly when the node or one of its ancestors fits the view *)
(* one step past the combinator; fits without the disjunct                  *)
(* next_node.fits(&next_selector) gives the same outcome as fits; so a      *)
(* selector whose sequence starts with AnyChild matches exactly when some   *)
(* node of the chain fits the view at offset 1.  The node is the leaf of    *)
(* the chain: a node with its ancestors is a chain itself.                  *)
RedundantDisjunct == []CombinatorAnchors

\* "a " matched through the grandparent: leaf and parent do not anchor a
RedundantDisjunctWitness ==
    /\ mstatus = "returned"
    /\ ret
    /\ Len(elements) = 2
    /\ is_any_child(elements[1])
    /\ Len(chain) >= 3
    /\ fits(elements, chain, 0, 1) = "false"
    /\ fits(elements, chain, 1, 1) = "false"
    /\ fits(elements, chain, 2, 1) = "true"

----------------------------------------------------------------------------
(* The copy of the matcher in css/style.rs: its SelectorElement calls the   *)
(* State predicate Attribute, and its ElementNode answers has_attribute     *)
(* with a constant.                                                         *)

CssNodeHasAttribute(c, idx, tag) == FALSE

CssElementDescribesNode(e, c, idx) ==
    CASE e.k = "Id" -> NodeId(c, idx) = Some(e.v)
      [] e.k = "State" -> CssNodeHasAttribute(c, idx, e.v)
      [] e.k = "Tag" -> NodeTag(c, idx) = e.v
      [] e.k = "Class" -> NodeHasClass(c, idx, e.v)
      [] OTHER -> FALSE

\* What predicate e asks of the element n
Asks(e, n) ==
    CASE e.k = "Id" -> n.id = Some(e.v)
      [] e.k = "State" -> e.v \in n.state
      [] e.k = "Tag" -> n.tag = e.v
      [] e.k = "Class" -> e.v \in n.classes

(* C17: in ess/selector.rs and in css/style.rs a State/Attribute predicate  *)
(* describes a node exactly when the element's state set holds the symbol,  *)
(* and Id, Tag and Class predicates are answered by equality with the id    *)
(* and the name and by membership in the class set; so ":a" matches exactly *)
(* the chains whose leaf carries state a.                                   *)
PredicatesAnswered ==
    /\ (pstatus = "done" /\ mstatus = "idle") =>
          \A i \in DOMAIN elements : \A n \in Nodes :
              is_value(elements[i]) =>
                  /\ ElementDescribesNode(elements[i], <<n>>, 0) = Asks(elements[i], n)
                  /\ CssElementDescribesNode(elements[i], <<n>>, 0) = Asks(elements[i], n)
    /\ (MatchEnded /\ consumed = <<Colon, Ident("a")>>) =>
          Outcome = IF "a" \in chain[1].state THEN "true" ELSE "false"

----------------------------------------------------------------------------
\* Position of the last token of src that is neither whitespace nor an #id,
\* 0 if there is none
LastFlagSetter(src) ==
    LET js == { j \in DOMAIN src : src[j].t \notin {"WhiteSpace", "IDHash"} }
    IN  IF js = {} THEN 0 ELSE CHOOSE j \in js : \A h \in js : h <= j

\* A whitespace or #id token leaves the flag as it was; ':' and '.' leave the
\* element sequence as it was
TokenFrame ==
    /\ (consumed' = Append(consumed, WhiteSpace)) => next' = next
    /\ \A v \in IdNames \ {""} :
          (consumed' = Append(consumed, IDHash(v))) => next' = next
    /\ (consumed' = Append(consumed, Colon)) => elements' = elements
    /\ (consumed' = Append(consumed, Delim("."))) => elements' = elements

\* An identifier is read under the last modifier before it when only
\* whitespace and #id tokens stand between the two
PendingModifier ==
    \A v \in Symbols :
        (consumed' = Append(consumed, Ident(v))) =>
            LET j == LastFlagSetter(consumed)
            IN  /\ (j # 0 /\ consumed[j] = Delim(".")) =>
                      elements' = <<Class(v)>> \o elements
                /\ (j # 0 /\ consumed[j] = Colon) =>
                      elements' = <<State(v)>> \o elements

ModifierExamples ==
    /\ (pstatus = "done" /\ consumed = <<Delim("."), WhiteSpace, Ident("a")>>)
          => elements = <<Class("a"), AnyChild>>
    /\ (pstatus = "done"
          /\ consumed = <<Delim("."), IDHash("a"), WhiteSpace, Ident("b")>>)
          => elements = <<Class("b"), AnyChild, Id("a")>>
    /\ (pstatus = "done" /\ consumed = <<Delim("."), Colon, Ident("a")>>)
          => elements = <<State("a")>>

(* C18: whitespace and #id tokens leave the flag unchanged and ':' and '.'  *)
(* leave the element sequence unchanged, so a pending '.' or ':' stays in   *)
(* force across whitespace and #id tokens until the next identifier and a   *)
(* later modifier overrides an earlier one: ". a" gives Class(a), AnyChild; *)
(* ".#a b" gives Class(b), AnyChild, Id(a); ".:a" gives State(a).           *)
ModifierPersists == []ModifierExamples /\ [][TokenFrame /\ PendingModifier]_vars

\* ".#a b" parsed to the end
ModifierPersistsWitness ==
    /\ pstatus = "done"
    /\ consumed = <<Delim("."), IDHash("a"), WhiteSpace, Ident("b")>>
    /\ elements = <<Class("b"), AnyChild, Id("a")>>

====
